---- MODULE Spec2Model ----
(***************************************************************************)
(* Model of twitter_trends_scraper.py.                                     *)
(*                                                                         *)
(* The source file is an unresolved merge of two versions of the script.   *)
(* Version A (lines 57-154, the keyword loop 264-276 with its body 293-294,*)
(* the summary return 300-303/309-311, the worker pool 376-377) fetches    *)
(* through the r.jina.ai proxy, extracts messages after timestamp anchors, *)
(* scores with translation + VADER, classifies by keyword and summarises.  *)
(* Version B (lines 160-251, the account loop 278-294, the return 305-311, *)
(* the list comprehension 379) parses HTML, scores with a word lexicon and *)
(* classifies by account handle.  Each operator below names the lines it   *)
(* models.                                                                 *)
(*                                                                         *)
(* A Python str is modelled as a sequence of one-character strings.        *)
(***************************************************************************)
EXTENDS Integers, Sequences, FiniteSets, TLC

VARIABLES
    \* fetch_tweets_from_nitter (anchor scan)
    sPc, lines, i, tweets, taken,
    \* sentiment_score (plain lexicon)
    lxPc, lxText, lxPos, lxNeg, lxRes,
    \* summarize_tweets
    suPc, suTweets, suN, suOut,
    \* analyze_trend
    tPc, tTopic, tTweets, tK, tTrans, scores, left_scores, right_scores, emitted,
    calls,
    \* __main__
    mPc, topics, world, running, futures, results, seqResults

scanVars  == <<sPc, lines, i, tweets, taken>>
lexVars   == <<lxPc, lxText, lxPos, lxNeg, lxRes>>
sumVars   == <<suPc, suTweets, suN, suOut>>
trendVars == <<tPc, tTopic, tTweets, tK, tTrans, scores, left_scores, right_scores,
              emitted, calls>>
mainVars  == <<mPc, topics, world, running, futures, results, seqResults>>
vars      == <<scanVars, lexVars, sumVars, trendVars, mainVars>>

-----------------------------------------------------------------------------
(* Python str primitives                                                   *)

\* F(x), with x evaluated once
Strict(F(_), x) == CHOOSE r \in {F(v) : v \in {x}} : TRUE

Whitespace == {" ", "\t"}
Digits == {"0", "1", "2", "3", "4", "5", "6", "7", "8", "9"}

\* string.punctuation (the backquote, which a TLA+ string cannot hold, is left out)
Punctuation ==
    {"!", "\"", "#", "$", "%", "&", "'", "(", ")", "*", "+", ",", "-", ".",
     "/", ":", ";", "<", "=", ">", "?", "@", "[", "\\", "]", "^", "_",
     "{", "|", "}", "~"}

Upper == <<"A", "B", "C", "D", "E", "F", "G", "H", "I", "J", "K", "L", "M",
           "N", "O", "P", "Q", "R", "S", "T", "U", "V", "W", "X", "Y", "Z">>
LowerOf == <<"a", "b", "c", "d", "e", "f", "g", "h", "i", "j", "k", "l", "m",
             "n", "o", "p", "q", "r", "s", "t", "u", "v", "w", "x", "y", "z">>

\* str.lower() on one character
LowerChar(c) ==
    IF \E k \in 1..26 : Upper[k] = c
    THEN LowerOf[CHOOSE k \in 1..26 : Upper[k] = c]
    ELSE c

\* str.lower()
Lower(s) == [k \in 1..Len(s) |-> LowerChar(s[k])]

RECURSIVE LStripSet(_, _)
LStripSet(s, cs) ==
    IF s # <<>> /\ Head(s) \in cs THEN LStripSet(Tail(s), cs) ELSE s

RECURSIVE RStripSet(_, _)
RStripSet(s, cs) ==
    IF s # <<>> /\ s[Len(s)] \in cs
    THEN RStripSet(SubSeq(s, 1, Len(s) - 1), cs)
    ELSE s

\* str.strip(chars)
StripSet(s, cs) == RStripSet(LStripSet(s, cs), cs)

StripIdentity(s) == s

\* str.strip()
Strip(s) == StripSet(s, Whitespace)

\* str.isdigit()
IsDigit(s) == s # <<>> /\ \A k \in 1..Len(s) : s[k] \in Digits

\* str.startswith(p)
StartsWith(s, p) == Len(s) >= Len(p) /\ SubSeq(s, 1, Len(p)) = p

\* str.endswith(p)
EndsWith(s, p) == Len(s) >= Len(p) /\ SubSeq(s, Len(s) - Len(p) + 1, Len(s)) = p

\* p in s
Contains(s, p) ==
    \E k \in 0..(Len(s) - Len(p)) : SubSeq(s, k + 1, k + Len(p)) = p

-----------------------------------------------------------------------------
(* fetch_tweets_from_nitter, version A: lines 86-118                       *)

\* The literal the pattern UTC"\)$ matches at the end of a line
TimestampMarker == <<"U", "T", "C", "\"", ")">>

\* timestamp_re.search(line)
IsAnchor(line) == EndsWith(line, TimestampMarker)

SkippableBlankOnly(line) == Strip(line) = <<>>

\* the inner while's condition on lines[j]
Skippable(line) == Strip(line) = <<>> \/ IsDigit(Strip(line))

\* the loop's cap on len(tweets)
ScanCap == 30

\* the cap the docstring states
DocCap == 10

SkipFromNone(ls, j0) == j0

RECURSIVE SkipFrom(_, _)
\* the inner while: the first j at or after j0 that is past the end or not skippable
SkipFrom(ls, j0) ==
    IF j0 <= Len(ls) /\ Skippable(ls[j0]) THEN SkipFrom(ls, j0 + 1) ELSE j0

\* the test that guards tweets.append(text_line)
Accepted(text_line) ==
    /\ text_line # <<>>
    /\ ~StartsWith(text_line, <<"!", "[">>)
    /\ ~StartsWith(text_line, <<"[", "]">>)

\* the outer while's condition
ScanGuard(ls, idx, tw) == idx <= Len(ls) /\ Len(tw) < ScanCap

\* one iteration of the outer while: the new (i, tweets) and the line taken
ScanIter(ls, idx, tw) ==
    IF IsAnchor(ls[idx])
    THEN LET j == SkipFrom(ls, idx + 1) IN
         IF j <= Len(ls)
         THEN LET text_line == Strip(ls[j]) IN
              [i |-> j + 1,
               tweets |-> IF Accepted(text_line) THEN Append(tw, text_line) ELSE tw,
               took |-> IF Accepted(text_line) THEN <<j>> ELSE <<>>]
         ELSE [i |-> idx + 1, tweets |-> tw, took |-> <<>>]
    ELSE [i |-> idx + 1, tweets |-> tw, took |-> <<>>]

RECURSIVE ScanAll(_, _, _)
\* the whole loop, lines 103-118
ScanAll(ls, idx, tw) ==
    IF ScanGuard(ls, idx, tw)
    THEN LET r == ScanIter(ls, idx, tw) IN ScanAll(ls, r.i, r.tweets)
    ELSE tw



-----------------------------------------------------------------------------
(* Inputs of the anchor scan: resp.text.splitlines(), line 99              *)

MaxLines == 4
MaxPairs == 31

AnchorLine == <<"U", "T", "C", "\"", ")">>
BlankLine  == <<>>
NumLine    == <<"4", "2">>
NumSpLine  == <<" ", "7">>
TextLine   == <<"h", "i">>
TextSpLine == <<" ", "o", "k", " ">>
ImgLine    == <<"!", "[", "a">>
ImgSpLine  == <<" ", "!", "[">>
LinkLine   == <<"[", "]", "x">>

LinePool ==
    {AnchorLine, BlankLine, NumLine, NumSpLine, TextLine, TextSpLine,
     ImgLine, ImgSpLine, LinkLine}

ShortBodies == UNION {[1..n -> LinePool] : n \in 0..MaxLines}

RECURSIVE Pairs(_)
\* k timestamp lines, each followed by a message line
Pairs(k) == IF k = 0 THEN <<>> ELSE Pairs(k - 1) \o <<AnchorLine, TextLine>>

LongBodies == {Pairs(k) : k \in 1..MaxPairs}

ScanBodies == ShortBodies \cup LongBodies

-----------------------------------------------------------------------------
(* Idle values of each part, for the specifications that do not run it     *)

IdleScan ==
    /\ sPc = "idle" /\ lines = <<>> /\ i = 1 /\ tweets = <<>> /\ taken = <<>>

IdleLex ==
    /\ lxPc = "idle" /\ lxText = <<>> /\ lxPos = 0 /\ lxNeg = 0
    /\ lxRes = [num |-> 0, den |-> 1]

IdleSum ==
    /\ suPc = "idle" /\ suTweets = <<>> /\ suN = 0 /\ suOut = <<>>

IdleTrend ==
    /\ tPc = "idle" /\ tTopic = <<>> /\ tTweets = <<>> /\ tK = 1
    /\ tTrans = "none" /\ scores = <<>> /\ left_scores = <<>> /\ right_scores = <<>>
    /\ emitted = <<>>
    /\ calls = [fetch |-> 0, translate |-> 0, score |-> 0, classify |-> 0,
                summarize |-> 0]

IdleMain ==
    /\ mPc = "idle" /\ topics = <<>> /\ world = 0
    /\ running = {} /\ futures = <<>> /\ results = <<>> /\ seqResults = <<>>

-----------------------------------------------------------------------------
(* Specification of fetch_tweets_from_nitter (version A)                   *)

InitScan ==
    /\ sPc = "fetch" /\ lines = <<>> /\ i = 1 /\ tweets = <<>> /\ taken = <<>>
    /\ IdleLex /\ IdleSum /\ IdleTrend /\ IdleMain

\* lines 90-94: requests.get or raise_for_status raises, return []
ScanFetchFail ==
    /\ sPc = "fetch"
    /\ sPc' = "done"
    /\ tweets' = <<>>
    /\ UNCHANGED <<lines, i, taken, lexVars, sumVars, trendVars, mainVars>>

\* lines 91-103: the response arrives; lines, tweets and i are initialised
ScanFetchOK ==
    /\ sPc = "fetch"
    /\ \E body \in ScanBodies : lines' = body
    /\ sPc' = "scan"
    /\ i' = 1
    /\ tweets' = <<>>
    /\ UNCHANGED <<taken, lexVars, sumVars, trendVars, mainVars>>

\* lines 104-116: one iteration of the outer while
ScanStep ==
    /\ sPc = "scan"
    /\ ScanGuard(lines, i, tweets)
    /\ LET r == ScanIter(lines, i, tweets) IN
        /\ i' = r.i
        /\ tweets' = r.tweets
        /\ taken' = taken \o r.took
    /\ UNCHANGED <<sPc, lines, lexVars, sumVars, trendVars, mainVars>>

\* lines 104, 118: the loop condition fails, return tweets
ScanReturn ==
    /\ sPc = "scan"
    /\ ~ScanGuard(lines, i, tweets)
    /\ sPc' = "done"
    /\ UNCHANGED <<lines, i, tweets, taken, lexVars, sumVars, trendVars, mainVars>>

NextScan == ScanFetchFail \/ ScanFetchOK \/ ScanStep \/ ScanReturn

SpecScan == InitScan /\ [][NextScan]_vars

-----------------------------------------------------------------------------
(* Claims about the anchor scan                                            *)

\* The input is a timestamp line, then only blank or digits-only lines, then
\* one line that is neither blank nor digits-only.
C4_Shape ==
    /\ Len(lines) >= 2
    /\ IsAnchor(lines[1])
    /\ \A k \in 2..(Len(lines) - 1) :
          Strip(lines[k]) = <<>> \/ IsDigit(Strip(lines[k]))
    /\ Strip(lines[Len(lines)]) # <<>>
    /\ ~IsDigit(Strip(lines[Len(lines)]))

\* C4 (as amended): for an input made of a timestamp line, any number of blank
\* or digits-only lines and a final text line whose whitespace-stripped form
\* does not begin with "![" or "[]", the extractor returns exactly one message,
\* the whitespace-stripped text line.
C4_StrippedMessage ==
    (/\ sPc = "done"
     /\ C4_Shape
     /\ ~StartsWith(Strip(lines[Len(lines)]), <<"!", "[">>)
     /\ ~StartsWith(Strip(lines[Len(lines)]), <<"[", "]">>))
    => tweets = <<Strip(lines[Len(lines)])>>

\* C4 witness: a timestamp line, two skipped lines (one blank, one numeric) and
\* a text line with surrounding whitespace, returned stripped.
C4_Witness ==
    /\ sPc = "done"
    /\ C4_Shape
    /\ Len(lines) = 4
    /\ lines[2] = BlankLine
    /\ IsDigit(Strip(lines[3]))
    /\ lines[4] # Strip(lines[4])
    /\ tweets = <<Strip(lines[4])>>

\* C4 as stated: the text line is non-empty and does not itself begin with
\* "![" or "[]"; the one message returned equals that line.
C4_AsStated ==
    (/\ sPc = "done"
     /\ C4_Shape
     /\ ~StartsWith(lines[Len(lines)], <<"!", "[">>)
     /\ ~StartsWith(lines[Len(lines)], <<"[", "]">>))
    => tweets = <<lines[Len(lines)]>>

\* C9 as stated: the number of collected messages never exceeds the cap of 10
\* that the docstring states.
C9_AtMostDocCap == Len(tweets) <= DocCap

\* the timestamp lines among the lines already scanned
AnchorsBefore(idx) == {a \in 1..(idx - 1) : a <= Len(lines) /\ IsAnchor(lines[a])}

C10_State ==
    sPc \in {"scan", "done"} =>
        /\ Len(taken) = Len(tweets)
        /\ \A k \in 1..Len(taken) :
              /\ taken[k] \in 1..Len(lines)
              /\ taken[k] < i
              /\ tweets[k] = Strip(lines[taken[k]])
              /\ tweets[k] # <<>>
              /\ ~StartsWith(tweets[k], <<"!", "[">>)
              /\ ~StartsWith(tweets[k], <<"[", "]">>)
              /\ ~IsDigit(tweets[k])
        /\ \A k \in 1..(Len(taken) - 1) : taken[k] < taken[k + 1]
        /\ Len(tweets) <= Cardinality(AnchorsBefore(i))

\* C10: in every state of the scan the index strictly increases with each
\* iteration, the messages are in input order, each is a non-empty stripped
\* input line that begins with neither "![" nor "[]" and is not digits-only,
\* and there are no more messages than timestamp lines already scanned.
C10_ScanInvariant ==
    /\ []C10_State
    /\ [][(sPc = "scan" /\ sPc' = "scan") => i' > i]_vars

\* C10 witness: a finished scan with two messages and a timestamp line that
\* gave none.
C10_Witness ==
    /\ sPc = "done"
    /\ Len(tweets) = 2
    /\ Len(tweets) < Cardinality(AnchorsBefore(i))
    /\ i > Len(lines)

-----------------------------------------------------------------------------
(* sentiment_score, version B (plain lexicon): lines 187-196, 245-251      *)

POSITIVE_WORDS ==
    {<<"g", "o", "o", "d">>, <<"g", "r", "e", "a", "t">>, <<"h", "a", "p", "p", "y">>, <<"l", "o", "v", "e">>, <<"e", "x", "c", "e", "l", "l", "e", "n", "t">>, <<"p", "o", "s", "i", "t", "i", "v", "e">>, <<"f", "o", "r", "t", "u", "n", "a", "t", "e">>,
     <<"c", "o", "r", "r", "e", "c", "t">>, <<"s", "u", "p", "e", "r", "i", "o", "r">>, <<"f", "a", "v", "o", "r", "a", "b", "l", "e">>}

NEGATIVE_WORDS ==
    {<<"b", "a", "d">>, <<"s", "a", "d">>, <<"h", "a", "t", "e">>, <<"t", "e", "r", "r", "i", "b", "l", "e">>, <<"a", "w", "f", "u", "l">>, <<"n", "e", "g", "a", "t", "i", "v", "e">>, <<"u", "n", "f", "o", "r", "t", "u", "n", "a", "t", "e">>,
     <<"w", "r", "o", "n", "g">>, <<"i", "n", "f", "e", "r", "i", "o", "r">>, <<"u", "n", "f", "a", "v", "o", "r", "a", "b", "l", "e">>}

RECURSIVE SplitFrom(_, _)
\* str.split(): the maximal runs of non-whitespace characters, in order;
\* cur is the run being read
SplitFrom(s, cur) ==
    IF s = <<>>
    THEN IF cur = <<>> THEN <<>> ELSE <<cur>>
    ELSE IF Head(s) \in Whitespace
         THEN IF cur = <<>>
              THEN SplitFrom(Tail(s), <<>>)
              ELSE <<cur>> \o SplitFrom(Tail(s), <<>>)
         ELSE SplitFrom(Tail(s), Append(cur, Head(s)))

Split(s) == SplitFrom(s, <<>>)

\* the characters of w.strip('.,!?:;')
LexStripChars == {".", ",", "!", "?", ":", ";"}

\* line 246: the set of normalised tokens of the text
LexWords(text) ==
    {Lower(StripSet(Split(text)[k], LexStripChars)) : k \in 1..Len(Split(text))}

\* line 247
LexPos(text) == Cardinality(LexWords(text) \cap POSITIVE_WORDS)

\* line 248
LexNeg(text) == Cardinality(LexWords(text) \cap NEGATIVE_WORDS)

LexRatioUnnormalised(pos, neg) == [num |-> pos - neg, den |-> 1]

\* lines 249-251: the float returned, as the exact fraction num/den
LexRatio(pos, neg) ==
    IF pos + neg = 0
    THEN [num |-> 0, den |-> 1]
    ELSE [num |-> pos - neg, den |-> pos + neg]

\* lines 245-251
sentiment_score(text) == LexRatio(LexPos(text), LexNeg(text))

-----------------------------------------------------------------------------
(* Specification of the plain-lexicon sentiment_score                      *)

MaxWords == 3

TokenPool == {<<"g", "o", "o", "d">>, <<"G", "r", "e", "a", "t", "!">>, <<"l", "o", "v", "e">>, <<"b", "a", "d">>, <<"H", "A", "T", "E", ".">>, <<"m", "e", "h">>, <<"s", "a", "d", "l", "y">>}

RECURSIVE Join(_, _)
\* sep.join(ws)
Join(ws, sep) ==
    IF ws = <<>> THEN <<>>
    ELSE IF Len(ws) = 1 THEN ws[1]
    ELSE ws[1] \o sep \o Join(Tail(ws), sep)

LexTexts ==
    {Join(ws, <<" ">>) : ws \in UNION {[1..n -> TokenPool] : n \in 0..MaxWords}}

InitLex ==
    /\ lxPc = "start" /\ lxText = <<>> /\ lxPos = 0 /\ lxNeg = 0
    /\ lxRes = [num |-> 0, den |-> 1]
    /\ IdleScan /\ IdleSum /\ IdleTrend /\ IdleMain

\* a caller passes a text
LexCall ==
    /\ lxPc = "start"
    /\ \E text \in LexTexts : lxText' = text
    /\ lxPc' = "called"
    /\ UNCHANGED <<lxPos, lxNeg, lxRes, scanVars, sumVars, trendVars, mainVars>>

\* lines 246-251
LexScore ==
    /\ lxPc = "called"
    /\ lxPos' = LexPos(lxText)
    /\ lxNeg' = LexNeg(lxText)
    /\ lxRes' = sentiment_score(lxText)
    /\ lxPc' = "done"
    /\ UNCHANGED <<lxText, scanVars, sumVars, trendVars, mainVars>>

NextLex == LexCall \/ LexScore

SpecLex == InitLex /\ [][NextLex]_vars

\* no whitespace-separated token of the text, stripped of .,!?:; and
\* lower-cased, is a positive or a negative word
NoLexiconToken(text) ==
    \A k \in 1..Len(Split(text)) :
        Lower(StripSet(Split(text)[k], LexStripChars))
            \notin (POSITIVE_WORDS \cup NEGATIVE_WORDS)

\* C3: the plain-lexicon score v = num/den satisfies -1 <= v <= 1; it is 0
\* when no token is in either word set, and otherwise it is
\* (pos - neg) / (pos + neg) with |pos - neg| <= pos + neg.
C3_ScoreBounded ==
    lxPc = "done" =>
        /\ lxRes.den > 0
        /\ -lxRes.den <= lxRes.num /\ lxRes.num <= lxRes.den
        /\ NoLexiconToken(lxText) => lxRes.num = 0
        /\ lxPos + lxNeg = 0 => lxRes.num = 0
        /\ lxPos + lxNeg > 0 =>
              /\ lxRes.num * (lxPos + lxNeg) = (lxPos - lxNeg) * lxRes.den
              /\ lxPos - lxNeg <= lxPos + lxNeg
              /\ lxNeg - lxPos <= lxPos + lxNeg

\* C3 witness: a scored text with two distinct positive words and one
\* negative word, whose score lies strictly between 0 and 1.
C3_Witness ==
    /\ lxPc = "done"
    /\ lxPos = 2 /\ lxNeg = 1
    /\ lxRes.num > 0 /\ lxRes.num < lxRes.den

-----------------------------------------------------------------------------
(* summarize_tweets, version A: lines 137-154                              *)

\* a part of stopwords.words('spanish'), line 79
STOPWORDS == {<<"d", "e">>, <<"l", "a">>, <<"q", "u", "e">>, <<"e", "l">>, <<"e", "n">>, <<"y">>}

\* the printable ASCII characters in code-point order (without the backquote)
CharOrder ==
    <<" ", "!", "\"", "#", "$", "%", "&", "'", "(", ")", "*", "+", ",", "-",
      ".", "/", "0", "1", "2", "3", "4", "5", "6", "7", "8", "9", ":", ";",
      "<", "=", ">", "?", "@", "A", "B", "C", "D", "E", "F", "G", "H", "I",
      "J", "K", "L", "M", "N", "O", "P", "Q", "R", "S", "T", "U", "V", "W",
      "X", "Y", "Z", "[", "\\", "]", "^", "_", "a", "b", "c", "d", "e", "f",
      "g", "h", "i", "j", "k", "l", "m", "n", "o", "p", "q", "r", "s", "t",
      "u", "v", "w", "x", "y", "z", "{", "|", "}", "~">>

\* ord(c), up to a monotone renumbering
Ord(c) == CHOOSE k \in 1..Len(CharOrder) : CharOrder[k] = c

RECURSIVE StrLess(_, _)
\* a < b on str
StrLess(a, b) ==
    IF b = <<>> THEN FALSE
    ELSE IF a = <<>> THEN TRUE
    ELSE IF Head(a) = Head(b) THEN StrLess(Tail(a), Tail(b))
    ELSE Ord(Head(a)) < Ord(Head(b))

\* p < q on the tuples (score, text)
PairLess(p, q) == p[1] < q[1] \/ (p[1] = q[1] /\ StrLess(p[2], q[2]))

\* word.strip(string.punctuation).lower(), lines 140 and 148
Norm(word) == Strict(LAMBDA v : Lower(v), StripSet(word, Punctuation))

\* the words of t that pass the filter of lines 143 and 150
Kept(t) == SelectSeq(Split(t), LAMBDA w : Lower(w) \notin STOPWORDS)

RECURSIVE AllKept(_)
\* the words of all messages that pass the filter, in order
AllKept(tw) == IF tw = <<>> THEN <<>> ELSE Kept(Head(tw)) \o AllKept(Tail(tw))

RECURSIVE NormAll(_)
NormAll(ws) == IF ws = <<>> THEN <<>> ELSE <<Norm(Head(ws))>> \o NormAll(Tail(ws))

\* lines 139-144: the keys counted into freq, one entry per occurrence
FreqKeys(tw) == Strict(LAMBDA ws : NormAll(ws), AllKept(tw))

\* freq[key]
Freq(keys, key) == Strict(LAMBDA k : Len(SelectSeq(keys, LAMBDA x : x = k)), key)

RECURSIVE SumFreq(_, _)
\* lines 147-151: the sum of freq over a sequence of kept words
SumFreq(keys, ws) ==
    IF ws = <<>> THEN 0 ELSE Freq(keys, Norm(Head(ws))) + SumFreq(keys, Tail(ws))

RECURSIVE ScoredWith(_, _)
\* lines 145-152: the (score, text) pairs, given the keys of freq
ScoredWith(keys, tw) ==
    IF tw = <<>> THEN <<>>
    ELSE <<<<SumFreq(keys, Kept(Head(tw))), Head(tw)>>>> \o ScoredWith(keys, Tail(tw))

\* the score of message t among the messages tw, lines 147-151
TweetScore(tw, t) == SumFreq(FreqKeys(tw), Kept(t))

\* scored, lines 139-152
Scored(tw) == Strict(LAMBDA keys : ScoredWith(keys, tw), FreqKeys(tw))

InsertAsc(p, sorted) ==
    LET before == SelectSeq(sorted, LAMBDA q : PairLess(q, p))
        after  == SelectSeq(sorted, LAMBDA q : ~PairLess(q, p))
    IN  before \o <<p>> \o after

\* p placed in a descending list, after the elements not less than it
InsertDesc(p, sorted) ==
    LET before == SelectSeq(sorted, LAMBDA q : ~PairLess(q, p))
        after  == SelectSeq(sorted, LAMBDA q : PairLess(q, p))
    IN  before \o <<p>> \o after

RECURSIVE SortDesc(_)
\* scored.sort(reverse=True), line 153
SortDesc(ps) ==
    IF ps = <<>> THEN <<>>
    ELSE Strict(LAMBDA rest : InsertDesc(ps[Len(ps)], rest),
                SortDesc(SubSeq(ps, 1, Len(ps) - 1)))

\* s[:n]
Slice(s, n) ==
    IF n >= 0
    THEN SubSeq(s, 1, IF n < Len(s) THEN n ELSE Len(s))
    ELSE SubSeq(s, 1, IF Len(s) + n > 0 THEN Len(s) + n ELSE 0)

\* lines 137-154
summarize_tweets(tw, n) ==
    Strict(LAMBDA top : Join([k \in 1..Len(top) |-> top[k][2]], <<"\n">>),
           Strict(LAMBDA sorted : Slice(sorted, n),
                  Strict(LAMBDA scored : SortDesc(scored), Scored(tw))))

-----------------------------------------------------------------------------
(* Specification of summarize_tweets                                       *)

MaxTweets == 3
MaxN == 3

SumPool ==
    {<<"g", "o", "l">>, <<"G", "o", "l", "!">>, <<"g", "o", "l", " ", "d", "e", " ", "c", "a", "s", "a">>, <<"l", "a", " ", "c", "a", "s", "a">>, <<"d", "e", " ", "l", "a">>, <<"l", "a", ",", " ", "c", "a", "s", "a", " ", "g", "o", "l">>}

SumInputs == UNION {[1..k -> SumPool] : k \in 0..MaxTweets}

InitSum ==
    /\ suPc = "start" /\ suTweets = <<>> /\ suN = 0 /\ suOut = <<>>
    /\ IdleScan /\ IdleLex /\ IdleTrend /\ IdleMain

\* a caller passes the messages and n
SumCall ==
    /\ suPc = "start"
    /\ \E tw \in SumInputs : suTweets' = tw
    /\ \E n \in 0..MaxN : suN' = n
    /\ suPc' = "called"
    /\ UNCHANGED <<suOut, scanVars, lexVars, trendVars, mainVars>>

\* lines 139-154
SumReturn ==
    /\ suPc = "called"
    /\ suOut' = summarize_tweets(suTweets, suN)
    /\ suPc' = "done"
    /\ UNCHANGED <<suTweets, suN, scanVars, lexVars, trendVars, mainVars>>

NextSum == SumCall \/ SumReturn

SpecSum == InitSum /\ [][NextSum]_vars

RECURSIVE SplitNewline(_, _)
\* the lines of a newline-joined text of non-empty lines; cur is the line
\* being read
SplitNewline(s, cur) ==
    IF s = <<>>
    THEN IF cur = <<>> THEN <<>> ELSE <<cur>>
    ELSE IF Head(s) = "\n"
         THEN <<cur>> \o SplitNewline(Tail(s), <<>>)
         ELSE SplitNewline(Tail(s), Append(cur, Head(s)))

\* how many times message m occurs in sequence s
Occurrences(s, m) == Cardinality({k \in 1..Len(s) : s[k] = m})

\* (score, text) of a <= (score, text) of b, for messages of suTweets
RankLeq(a, b) ==
    \/ TweetScore(suTweets, a) < TweetScore(suTweets, b)
    \/ /\ TweetScore(suTweets, a) = TweetScore(suTweets, b)
       /\ (a = b \/ StrLess(a, b))

\* C5: summarize_tweets returns exactly min(n, number of messages) messages
\* joined by newline; they are sorted by descending score, equal scores by
\* descending text; they are input messages, none more often than in the
\* input; and every message left out ranks no higher than any returned one.
C5_TopN ==
    suPc = "done" =>
        LET out == SplitNewline(suOut, <<>>)
            want == IF suN < Len(suTweets) THEN suN ELSE Len(suTweets)
        IN  /\ Len(out) = want
            /\ \A k \in 1..(Len(out) - 1) : RankLeq(out[k + 1], out[k])
            /\ \A k \in 1..Len(out) :
                  /\ Occurrences(suTweets, out[k]) >= Occurrences(out, out[k])
                  /\ \A j \in 1..Len(suTweets) :
                        Occurrences(suTweets, suTweets[j]) > Occurrences(out, suTweets[j])
                            => RankLeq(suTweets[j], out[k])

\* C5 witness: three distinct messages, two of them with equal scores, n = 2:
\* the two returned are ordered by the tie-break and the third is left out.
C5_Witness ==
    /\ suPc = "done"
    /\ Len(suTweets) = 3 /\ suN = 2
    /\ Cardinality({suTweets[k] : k \in 1..3}) = 3
    /\ LET out == SplitNewline(suOut, <<>>)
       IN  /\ Len(out) = 2
           /\ TweetScore(suTweets, out[1]) = TweetScore(suTweets, out[2])
           /\ TweetScore(suTweets, out[1]) > 0
           /\ StrLess(out[2], out[1])

-----------------------------------------------------------------------------
(* analyze_trend, version A: lines 82-84, 254-276, 293-303, 309-311        *)

LEFT_KEYWORDS == {<<"p", "e", "r", "o", "n", "i", "s", "m", "o">>, <<"k", "i", "r", "c", "h", "n", "e", "r", "i", "s", "m", "o">>, <<"i", "z", "q", "u", "i", "e", "r", "d", "a">>}

RIGHT_KEYWORDS == {<<"m", "a", "c", "r", "i">>, <<"m", "i", "l", "e", "i">>, <<"d", "e", "r", "e", "c", "h", "a">>, <<"l", "i", "b", "e", "r", "a", "l">>}

\* line 270: any(k in text_lower for k in LEFT_KEYWORDS)
InLeft(t) == \E k \in LEFT_KEYWORDS : Contains(Lower(t), k)

\* line 271
InRight(t) == \E k \in RIGHT_KEYWORDS : Contains(Lower(t), k)

\* lines 272-273 and 276, 293: the score of t is appended to left_scores
AddsLeft(t) == InLeft(t) \/ (~InLeft(t) /\ ~InRight(t))

AddsRightUnlessLeft(t) == ~InLeft(t)

\* lines 274-275 and 276, 294: the score of t is appended to right_scores
AddsRight(t) == InRight(t) \/ (~InLeft(t) /\ ~InRight(t))

RECURSIVE Sum(_)
\* sum(lst)
Sum(lst) == IF lst = <<>> THEN 0 ELSE Head(lst) + Sum(Tail(lst))

averageOverAll(lst) ==
    IF lst # <<>> THEN [sum |-> Sum(lst), len |-> Len(lst) + 1]
    ELSE [sum |-> 0, len |-> 1]

averageUnguarded(lst) == [sum |-> Sum(lst), len |-> Len(lst)]

\* lines 296-297: sum(lst) / len(lst) if lst else 0.0, as the fraction
\* sum/len; scores are counted in ten-thousandths
average(lst) ==
    IF lst # <<>> THEN [sum |-> Sum(lst), len |-> Len(lst)]
    ELSE [sum |-> 0, len |-> 1]

\* floor of a / b for b > 0
FloorDiv(a, b) == IF a >= 0 THEN a \div b ELSE -((-a + b - 1) \div b)

\* lines 309-310: round(x, 3) for x = a.sum / a.len ten-thousandths, in
\* thousandths: the nearest thousandth; at an exact tie the float's last bit
\* decides, so either neighbour
Round3Choices(a) ==
    LET lo == FloorDiv(a.sum, 10 * a.len)
        d  == a.sum - lo * 10 * a.len
    IN  IF d * 2 < 10 * a.len THEN {lo}
        ELSE IF d * 2 > 10 * a.len THEN {lo + 1}
        ELSE {lo, lo + 1}

\* the description of the fallback result, line 259
NoData == <<"N", "o", " ", "d", "a", "t", "a", " ", "a", "v", "a", "i", "l", "a", "b", "l", "e">>

FallbackEmptySummary(topic) ==
    [topic |-> topic, description |-> <<>>,
     sentiment_left |-> 0, sentiment_right |-> 0]

\* lines 257-262
Fallback(topic) ==
    [topic |-> topic, description |-> NoData,
     sentiment_left |-> 0, sentiment_right |-> 0]

\* the n passed at line 300
SummaryN == 10

\* lines 300-303, 309-311, with the two rounded means given
TrendResult(topic, tw, l, r) ==
    [topic |-> topic, description |-> summarize_tweets(tw, SummaryN),
     sentiment_left |-> l, sentiment_right |-> r]

\* the outcome of requests.get + raise_for_status, lines 90-94
NetFail == [ok |-> FALSE, body |-> <<>>]

NetOK(body) == [ok |-> TRUE, body |-> body]

\* lines 86-118, given the outcome of the request
fetch_tweets_from_nitter(resp) ==
    IF resp.ok THEN ScanAll(resp.body, 1, <<>>) ELSE <<>>

-----------------------------------------------------------------------------
(* Specification of analyze_trend                                          *)

MaxMsgs == 2

TrendMsgs == {<<"V", "i", "v", "a", " ", "M", "i", "l", "e", "i">>, <<"e", "l", " ", "p", "e", "r", "o", "n", "i", "s", "m", "o">>, <<"m", "a", "c", "r", "i", " ", "v", "s", " ", "k", "i", "r", "c", "h", "n", "e", "r", "i", "s", "m", "o">>, <<"h", "o", "l", "a">>}

\* compound scores of SID.polarity_scores, in ten-thousandths
VaderValues == {-4767, 1235}

TrendTopics == {<<"#", "B", "o", "c", "a">>, <<"D", "o", "l", "a", "r">>}

RECURSIVE TrendBody(_)
\* a page with one timestamp line before each message
TrendBody(ms) ==
    IF ms = <<>> THEN <<>>
    ELSE <<AnchorLine, BlankLine, Head(ms)>> \o TrendBody(Tail(ms))

TrendBodies ==
    {TrendBody(ms) : ms \in UNION {[1..k -> TrendMsgs] : k \in 0..MaxMsgs}}
        \cup {<<TextLine, NumLine>>}

InitTrend ==
    /\ tPc = "start" /\ tTweets = <<>> /\ tK = 1
    /\ tTopic \in TrendTopics
    /\ tTrans = "none" /\ scores = <<>> /\ left_scores = <<>> /\ right_scores = <<>>
    /\ emitted = <<>>
    /\ calls = [fetch |-> 0, translate |-> 0, score |-> 0, classify |-> 0,
                summarize |-> 0]
    /\ IdleScan /\ IdleLex /\ IdleSum /\ IdleMain

\* line 255, the request fails: fetch_tweets_from_nitter returns []
TrendFetchFail ==
    /\ tPc = "start"
    /\ tTweets' = fetch_tweets_from_nitter(NetFail)
    /\ calls' = [calls EXCEPT !.fetch = @ + 1]
    /\ tPc' = "fetched"
    /\ UNCHANGED <<tTopic, tK, tTrans, scores, left_scores, right_scores, emitted,
                   scanVars, lexVars, sumVars, mainVars>>

\* line 255, the request succeeds: the messages of the page
TrendFetchOK ==
    /\ tPc = "start"
    /\ \E body \in TrendBodies : tTweets' = fetch_tweets_from_nitter(NetOK(body))
    /\ calls' = [calls EXCEPT !.fetch = @ + 1]
    /\ tPc' = "fetched"
    /\ UNCHANGED <<tTopic, tK, tTrans, scores, left_scores, right_scores, emitted,
                   scanVars, lexVars, sumVars, mainVars>>

\* lines 256-262: no messages, the fallback result is returned
TrendFallback ==
    /\ tPc = "fetched"
    /\ tTweets = <<>>
    /\ emitted' = Append(emitted, Fallback(tTopic))
    /\ tPc' = "done"
    /\ UNCHANGED <<tTopic, tTweets, tK, tTrans, scores, left_scores, right_scores,
                   calls, scanVars, lexVars, sumVars, mainVars>>

\* lines 264-267: the lists are created and the loop is entered
TrendBegin ==
    /\ tPc = "fetched"
    /\ tTweets # <<>>
    /\ left_scores' = <<>>
    /\ right_scores' = <<>>
    /\ tK' = 1
    /\ tPc' = "loop"
    /\ UNCHANGED <<tTopic, tTweets, tTrans, scores, emitted, calls,
                   scanVars, lexVars, sumVars, mainVars>>

\* lines 127-131: the translation of message tK succeeds
TrendTranslateOK ==
    /\ tPc = "loop"
    /\ tK <= Len(tTweets)
    /\ tTrans' = "ok"
    /\ calls' = [calls EXCEPT !.translate = @ + 1]
    /\ tPc' = "translated"
    /\ UNCHANGED <<tTopic, tTweets, tK, scores, left_scores, right_scores, emitted,
                   scanVars, lexVars, sumVars, mainVars>>

TranslateFailRaises == "raised"

\* where control goes when the translation raises: the except clause of
\* lines 132-133 takes the original text and goes on
TranslateFailGoes == "translated"

\* lines 127-133: the translation of message tK raises
TrendTranslateFail ==
    /\ tPc = "loop"
    /\ tK <= Len(tTweets)
    /\ tTrans' = "failed"
    /\ calls' = [calls EXCEPT !.translate = @ + 1]
    /\ tPc' = TranslateFailGoes
    /\ UNCHANGED <<tTopic, tTweets, tK, scores, left_scores, right_scores, emitted,
                   scanVars, lexVars, sumVars, mainVars>>

\* lines 134, 268-276, 293-294: the compound score of message tK and its
\* buckets
TrendScore ==
    /\ tPc = "translated"
    /\ \E score \in VaderValues :
        /\ scores' = Append(scores, score)
        /\ left_scores' =
              IF AddsLeft(tTweets[tK]) THEN Append(left_scores, score) ELSE left_scores
        /\ right_scores' =
              IF AddsRight(tTweets[tK]) THEN Append(right_scores, score) ELSE right_scores
    /\ calls' = [calls EXCEPT !.score = @ + 1, !.classify = @ + 1]
    /\ tK' = tK + 1
    /\ tPc' = "loop"
    /\ UNCHANGED <<tTopic, tTweets, tTrans, emitted, scanVars, lexVars, sumVars, mainVars>>

\* lines 296-303, 309-311: the means, the summary and the result; a division
\* by zero would leave the function by ZeroDivisionError
TrendEmit ==
    /\ tPc = "loop"
    /\ tK > Len(tTweets)
    /\ calls' = [calls EXCEPT !.summarize = @ + 1]
    /\ IF average(left_scores).len = 0 \/ average(right_scores).len = 0
       THEN /\ tPc' = "raised"
            /\ UNCHANGED emitted
       ELSE /\ \E l \in Round3Choices(average(left_scores)) :
               \E r \in Round3Choices(average(right_scores)) :
                  emitted' = Append(emitted, TrendResult(tTopic, tTweets, l, r))
            /\ tPc' = "done"
    /\ UNCHANGED <<tTopic, tTweets, tK, tTrans, scores, left_scores, right_scores,
                   scanVars, lexVars, sumVars, mainVars>>

NextTrend ==
    \/ TrendFetchFail \/ TrendFetchOK \/ TrendFallback \/ TrendBegin
    \/ TrendTranslateOK \/ TrendTranslateFail \/ TrendScore \/ TrendEmit

SpecTrend == InitTrend /\ [][NextTrend]_vars

\* the interpreter runs the function to its return
SpecTrendFair == SpecTrend /\ WF_vars(NextTrend)

-----------------------------------------------------------------------------
(* Claims about analyze_trend                                              *)

\* C1: whenever extraction yields no message, the result has the description
\* "No data available" and both sentiments 0.0, and neither the scorer
\* (translation included), the classifier nor the summarizer was invoked.
C1_FallbackResult ==
    (tPc = "done" /\ tTweets = <<>>) =>
        /\ Len(emitted) = 1
        /\ emitted[1].topic = tTopic
        /\ emitted[1].description = <<"N", "o", " ", "d", "a", "t", "a", " ", "a", "v", "a", "i", "l", "a", "b", "l", "e">>
        /\ emitted[1].sentiment_left = 0
        /\ emitted[1].sentiment_right = 0
        /\ calls.translate = 0 /\ calls.score = 0
        /\ calls.classify = 0 /\ calls.summarize = 0

\* C1 witness: the analysis has returned after an extraction with no message.
C1_Witness ==
    /\ tPc = "done"
    /\ tTweets = <<>>
    /\ calls.fetch = 1
    /\ Len(emitted) = 1

HasLeftKeyword(t) ==
    \E kw \in {<<"p", "e", "r", "o", "n", "i", "s", "m", "o">>, <<"k", "i", "r", "c", "h", "n", "e", "r", "i", "s", "m", "o">>, <<"i", "z", "q", "u", "i", "e", "r", "d", "a">>} : Contains(Lower(t), kw)

HasRightKeyword(t) ==
    \E kw \in {<<"m", "a", "c", "r", "i">>, <<"m", "i", "l", "e", "i">>, <<"d", "e", "r", "e", "c", "h", "a">>, <<"l", "i", "b", "e", "r", "a", "l">>} : Contains(Lower(t), kw)

RECURSIVE ScoresAt(_, _)
\* the scores of the messages 1..k whose index is in idx, in order
ScoresAt(idx, k) ==
    IF k = 0 THEN <<>>
    ELSE IF k \in idx THEN Append(ScoresAt(idx, k - 1), scores[k])
    ELSE ScoresAt(idx, k - 1)

NearestThousandth(agg, bucket) ==
    LET diff == agg * 10 * Len(bucket) - Sum(bucket)
    IN  diff <= 5 * Len(bucket) /\ -diff <= 5 * Len(bucket)

\* C8 (as amended): for a non-empty message sequence each bucket's aggregate
\* is the arithmetic mean of the bucket's scores rounded to 3 decimal places,
\* an empty bucket's aggregate is 0.0, and no execution divides by zero.
C8_RoundedMean ==
    /\ tPc # "raised"
    /\ (tPc = "done" /\ tTweets # <<>>) =>
          /\ Len(emitted) = 1
          /\ IF left_scores = <<>>
             THEN emitted[1].sentiment_left = 0
             ELSE NearestThousandth(emitted[1].sentiment_left, left_scores)
          /\ IF right_scores = <<>>
             THEN emitted[1].sentiment_right = 0
             ELSE NearestThousandth(emitted[1].sentiment_right, right_scores)

\* C8 witness: every message matches only a left keyword, so the right bucket
\* is empty and its aggregate is 0 while the left aggregate is a rounded mean.
C8_Witness ==
    /\ tPc = "done"
    /\ Len(tTweets) = 2
    /\ \A k \in 1..2 : HasLeftKeyword(tTweets[k]) /\ ~HasRightKeyword(tTweets[k])
    /\ right_scores = <<>>
    /\ emitted[1].sentiment_right = 0
    /\ emitted[1].sentiment_left # 0
    /\ emitted[1].sentiment_left * 10 * 2 # Sum(left_scores)

\* C8 as stated: each bucket's aggregate is exactly the arithmetic mean of the
\* bucket's scores (0.0 for an empty bucket), and nothing divides by zero.
C8_ExactMean ==
    /\ tPc # "raised"
    /\ (tPc = "done" /\ tTweets # <<>>) =>
          /\ Len(emitted) = 1
          /\ IF left_scores = <<>>
             THEN emitted[1].sentiment_left = 0
             ELSE emitted[1].sentiment_left * 10 * Len(left_scores) = Sum(left_scores)
          /\ IF right_scores = <<>>
             THEN emitted[1].sentiment_right = 0
             ELSE emitted[1].sentiment_right * 10 * Len(right_scores) = Sum(right_scores)

C7_Safe ==
    /\ tPc # "raised"
    /\ Len(emitted) <= 1
    /\ tPc = "done" => Len(emitted) = 1
    /\ tPc # "done" => Len(emitted) = 0
    /\ calls.fetch <= 1
    /\ calls.summarize <= 1
    /\ calls.translate = Len(scores) + (IF tPc = "translated" THEN 1 ELSE 0)
    /\ calls.score = Len(scores)

\* C7: whatever the outcomes of the fetch and of each translation, the
\* analysis of a topic reaches a terminal state with exactly one result
\* emitted; no failure leaves analyze_trend as an error, and the fetch, each
\* message's translation and the summary are attempted once, never again.
C7_Terminates ==
    /\ []C7_Safe
    /\ <>[](tPc = "done" /\ Len(emitted) = 1)

\* C7 witness: a result was emitted after a successful fetch of two messages
\* in which the translation of the last message failed.
C7_Witness ==
    /\ tPc = "done"
    /\ Len(tTweets) = 2
    /\ tTrans = "failed"
    /\ calls.translate = 2
    /\ Len(emitted) = 1
    /\ emitted[1].description # <<"N", "o", " ", "d", "a", "t", "a", " ", "a", "v", "a", "i", "l", "a", "b", "l", "e">>

-----------------------------------------------------------------------------
(* __main__: lines 57-71 and 373-381                                       *)

\* max_workers, line 376
MaxWorkers == 5

\* the slice [:10] of line 71
TopicCap == 10

\* line 65
Placeholders == <<<<"T", "r", "e", "n", "d", "E", "x", "a", "m", "p", "l", "e", "1">>, <<"T", "r", "e", "n", "d", "E", "x", "a", "m", "p", "l", "e", "2">>, <<"T", "r", "e", "n", "d", "E", "x", "a", "m", "p", "l", "e", "3">>>>

MaxTopics == 11
NumWorlds == 3

DigitChars == <<"1", "2", "3", "4", "5", "6", "7", "8", "9">>

\* the k-th entry of the trends list of the page
TopicName(k) == <<"#", "t", DigitChars[((k - 1) % 9) + 1], DigitChars[((k - 1) \div 9) + 1]>>

\* the texts of the li elements of a page with k trends, line 71
TopicItems(k) == [j \in 1..k |-> TopicName(j)]

\* lines 57-71, given the outcome of the request and the items of the page
fetch_trending_topics(ok, items) ==
    IF ok THEN Slice(items, TopicCap) ELSE Placeholders

\* In world w, what the search request for a topic returns: a failure, a page
\* with one message or a page with two
RespOf(w, topic) ==
    LET h == (Ord(topic[Len(topic) - 1]) + Len(topic) + w) % 3
    IN  IF h = 0 THEN NetFail
        ELSE IF h = 1 THEN NetOK(TrendBody(<<<<"e", "l", " ", "p", "e", "r", "o", "n", "i", "s", "m", "o">>>>))
        ELSE NetOK(TrendBody(<<<<"V", "i", "v", "a", " ", "M", "i", "l", "e", "i">>, <<"h", "o", "l", "a">>>>))

\* In world w, the compound score that translation and VADER give a message
VaderOf(w, msg) == IF (Len(msg) + w) % 2 = 0 THEN -4767 ELSE 1235

\* the scores that the loop of lines 267-276, 293-294 appends to one list for
\* the messages sel it selects for that list
ScoresOf(w, sel) == [k \in 1..Len(sel) |-> VaderOf(w, sel[k])]

\* round(average(lst), 3) on one machine: one of the nearest thousandths
Round3(a) == CHOOSE r \in Round3Choices(a) : TRUE

\* lines 254-311 in world w
analyze_trend(w, topic) ==
    Strict(LAMBDA tw :
              IF tw = <<>> THEN Fallback(topic)
              ELSE TrendResult(topic, tw,
                               Round3(average(ScoresOf(w, SelectSeq(tw, AddsLeft)))),
                               Round3(average(ScoresOf(w, SelectSeq(tw, AddsRight))))),
           fetch_tweets_from_nitter(RespOf(w, topic)))

StatesOf(futs, st) == {k \in 1..Len(futs) : futs[k].state = st}

CollectableAnyDone(futs) == StatesOf(futs, "done")

\* line 377: list() takes the results of ex.map in the order of submission:
\* the future that may be taken next is the first one not yet taken, once done
Collectable(futs) ==
    {k \in StatesOf(futs, "done") : \A j \in 1..(k - 1) : futs[j].state = "collected"}

-----------------------------------------------------------------------------
(* Specification of __main__                                               *)

InitMain ==
    /\ mPc = "start" /\ topics = <<>> /\ world = 0
    /\ running = {} /\ futures = <<>> /\ results = <<>> /\ seqResults = <<>>
    /\ IdleScan /\ IdleLex /\ IdleSum /\ IdleTrend

\* lines 60-65, 374: the request for the trends page fails
MainTopicsFail ==
    /\ mPc = "start"
    /\ topics' = fetch_trending_topics(FALSE, <<>>)
    /\ \E w \in 0..(NumWorlds - 1) : world' = w
    /\ mPc' = "submit"
    /\ UNCHANGED <<running, futures, results, seqResults,
                   scanVars, lexVars, sumVars, trendVars>>

\* lines 60-71, 374: the trends page arrives with k items
MainTopicsOK ==
    /\ mPc = "start"
    /\ \E k \in 0..MaxTopics : topics' = fetch_trending_topics(TRUE, TopicItems(k))
    /\ \E w \in 0..(NumWorlds - 1) : world' = w
    /\ mPc' = "submit"
    /\ UNCHANGED <<running, futures, results, seqResults,
                   scanVars, lexVars, sumVars, trendVars>>

\* lines 376-377: ex.map submits one task per topic
MainSubmit ==
    /\ mPc = "submit"
    /\ futures' = [k \in 1..Len(topics) |-> [state |-> "queued", result |-> <<>>]]
    /\ mPc' = "pool"
    /\ UNCHANGED <<topics, world, running, results, seqResults,
                   scanVars, lexVars, sumVars, trendVars>>

\* a free worker takes the oldest queued task
MainStart ==
    /\ mPc = "pool"
    /\ Cardinality(running) < MaxWorkers
    /\ \E k \in StatesOf(futures, "queued") :
        /\ \A j \in 1..(k - 1) : futures[j].state # "queued"
        /\ futures' = [futures EXCEPT ![k].state = "running"]
        /\ running' = running \cup {k}
    /\ UNCHANGED <<mPc, topics, world, results, seqResults,
                   scanVars, lexVars, sumVars, trendVars>>

\* a worker returns from analyze_trend and sets its future
MainFinish ==
    /\ mPc = "pool"
    /\ \E k \in running :
        /\ futures' = [futures EXCEPT ![k] =
                          [state |-> "done", result |-> analyze_trend(world, topics[k])]]
        /\ running' = running \ {k}
    /\ UNCHANGED <<mPc, topics, world, results, seqResults,
                   scanVars, lexVars, sumVars, trendVars>>

\* line 377: list() appends the next result of ex.map
MainCollect ==
    /\ mPc = "pool"
    /\ \E k \in Collectable(futures) :
        /\ results' = Append(results, futures[k].result)
        /\ futures' = [futures EXCEPT ![k].state = "collected"]
    /\ UNCHANGED <<mPc, topics, world, running, seqResults,
                   scanVars, lexVars, sumVars, trendVars>>

\* lines 376-377: every result is taken and the with block ends
MainPoolDone ==
    /\ mPc = "pool"
    /\ StatesOf(futures, "collected") = 1..Len(futures)
    /\ mPc' = "seq"
    /\ UNCHANGED <<topics, world, running, futures, results, seqResults,
                   scanVars, lexVars, sumVars, trendVars>>

\* line 379: the list comprehension analyses the next topic
MainSeqStep ==
    /\ mPc = "seq"
    /\ Len(seqResults) < Len(topics)
    /\ seqResults' = Append(seqResults, analyze_trend(world, topics[Len(seqResults) + 1]))
    /\ UNCHANGED <<mPc, topics, world, running, futures, results,
                   scanVars, lexVars, sumVars, trendVars>>

\* line 381: the results go to build_ui
MainUi ==
    /\ mPc = "seq"
    /\ Len(seqResults) = Len(topics)
    /\ mPc' = "done"
    /\ UNCHANGED <<topics, world, running, futures, results, seqResults,
                   scanVars, lexVars, sumVars, trendVars>>

NextMain ==
    \/ MainTopicsFail \/ MainTopicsOK \/ MainSubmit \/ MainStart \/ MainFinish
    \/ MainCollect \/ MainPoolDone \/ MainSeqStep \/ MainUi

SpecMain == InitMain /\ [][NextMain]_vars

-----------------------------------------------------------------------------
(* Claim about __main__                                                    *)

\* C6: whatever the interleaving and completion order of the at most 5
\* workers, the k-th collected result is the analysis of the k-th topic, the
\* result sequence ends as long as the topic list, and it is identical to the
\* result sequence of the sequential run over the same topics.
C6_PositionalResults ==
    /\ Cardinality(running) <= 5
    /\ Len(results) <= Len(topics)
    /\ \A k \in 1..Len(results) :
          /\ results[k].topic = topics[k]
          /\ results[k] = analyze_trend(world, topics[k])
    /\ mPc \in {"seq", "done"} => Len(results) = Len(topics)
    /\ mPc = "done" => results = seqResults

\* C6 witness: ten topics; the third task finished before the second, all
\* five workers are busy while the eighth task waits, and the first result
\* has been collected in position.
C6_Witness ==
    /\ mPc = "pool"
    /\ Len(topics) = 10
    /\ futures[1].state = "collected"
    /\ futures[2].state = "running"
    /\ futures[3].state = "done"
    /\ futures[8].state = "queued"
    /\ Cardinality(running) = 5
    /\ Len(results) = 1
    /\ results[1].topic = topics[1]
    /\ futures[3].result # futures[1].result

====
